---- MODULE Spec2Model ----
(***************************************************************************)
(* Splitica: the bill-splitting ledger served by the Express routes and    *)
(* the storage object exported by server/storage.ts, which is an instance  *)
(* of DatabaseStorage (PostgreSQL).  The tables are sets of rows; a serial *)
(* primary key is the number of rows inserted so far plus one.  Money is   *)
(* held in cents: a numeric(10,2) column rounds what is written to it, and *)
(* the JavaScript sums over values read back from such columns are taken   *)
(* as exact sums of cents.                                                 *)
(***************************************************************************)
EXTENDS Integers, Sequences, FiniteSets, TLC

VARIABLES friends, groups, groupMembers, expenses, expenseShares,
          settlements, notifications, last,
          subscriptions, sockets, inbox, calls

vars == <<friends, groups, groupMembers, expenses, expenseShares,
          settlements, notifications, last,
          subscriptions, sockets, inbox, calls>>

\* the tables
Ledger == <<friends, groups, groupMembers, expenses, expenseShares,
            settlements, notifications>>

\* the WebSocket side: the storage object's subscriptions map, the sockets
\* the server has accepted, and what each socket has been sent
channel == <<subscriptions, sockets, inbox>>

\* registered users (rows of the users table); user u has e-mail EmailOf(u)
Users == {1, 2, 3}

\* expenses.group_id IS NULL
NoGroup == 0

\* bounds of the model
MaxExpenses == 2
MaxSettlements == 2
MaxGroups == 1

\* amounts a request may carry, in cents
Amounts == {200, 300}

\* users who submit direct expenses
Payers == {1, 2}

\* participant lists a direct expense request may carry (req.body.friends)
FriendLists == {<<1>>, <<2>>, <<2, 3>>, <<2, 2>>}

\* an e-mail address is a mailbox name and the letter case it is written in
EmailOf(u) == <<u, "lower">>

EmailInputs == {<<n, c>> : n \in Users \cup {0}, c \in {"lower", "upper"}}

----------------------------------------------------------------------------
(* helpers over tables *)

NextId(table) == Cardinality(table) + 1

SumAmount(rows) ==
  LET sum[S \in SUBSET rows] ==
        IF S = {} THEN 0
        ELSE LET r == CHOOSE x \in S : TRUE
             IN r.amount + sum[S \ {r}]
  IN sum[rows]

\* Array.prototype.find over rows returned in insertion order
FirstRow(rows) == CHOOSE r \in rows : \A x \in rows : r.id <= x.id

Range(seq) == {seq[i] : i \in 1..Len(seq)}

includes(seq, x) == x \in Range(seq)

\* client sockets that may connect to /ws
Conns == {1, 2}

\* the subscriptions object before any socket has subscribed
NoSubscriptions == [u \in {} |-> <<>>]

\* response of the request handled last; id is the row or user it concerned,
\* and a friend request's response also carries the body sent with the status
\* and the e-mail address the request gave
NoRequest == [op |-> "none", user |-> 0, id |-> 0, status |-> 0]

----------------------------------------------------------------------------
(* DatabaseStorage *)

getUserByEmail_AnyCase(email) ==
  {u \in Users : EmailOf(u)[1] = email[1]}

\* eq(users.email, email): the comparison of two text values, letter case
\* included
getUserByEmail(email) ==
  {u \in Users : EmailOf(u) = email}

getFriendship(userId, friendId) ==
  {f \in friends : \/ (f.userId = userId /\ f.friendId = friendId)
                   \/ (f.userId = friendId /\ f.friendId = userId)}

addFriend(userId, friendId, status) ==
  friends \cup {[id |-> NextId(friends), userId |-> userId,
                 friendId |-> friendId, status |-> status]}

updateFriendship(id, status) ==
  {IF f.id = id THEN [f EXCEPT !.status = status] ELSE f : f \in friends}

\* insert one notification row; n is a record with userId, type and data
NotificationRow(table, n) ==
  [id |-> NextId(table), userId |-> n.userId, type |-> n.type,
   read |-> FALSE, data |-> n.data]

createNotification(table, n) == table \cup {NotificationRow(table, n)}

RECURSIVE createNotifications(_, _)
createNotifications(table, ns) ==
  IF ns = <<>> THEN table
  ELSE createNotifications(createNotification(table, Head(ns)), Tail(ns))

NotificationData(ref, num, den) == [ref |-> ref, num |-> num, den |-> den]

----------------------------------------------------------------------------
(* POST /api/friends/email *)

\* line 216: the pending request is the caller's own
AlreadySent_Swapped(existingFriendship, userId) == existingFriendship.friendId = userId

AlreadySent(existingFriendship, userId) == existingFriendship.userId = userId

\* line 225: who is told that the pending request was accepted
AcceptedNotificationTarget_Acceptor(existingFriendship, userId) == userId

AcceptedNotificationTarget(existingFriendship, userId) == existingFriendship.userId

AddFriendByEmail(userId, email) ==
  LET found == getUserByEmail(email) IN
  IF EmailOf(userId) = email THEN
      /\ last' = [op |-> "friend", user |-> userId, id |-> userId, status |-> 400,
                 body |-> "You cannot add yourself as a friend", email |-> email]
      /\ UNCHANGED <<friends, notifications>>
  ELSE IF found = {} THEN
      /\ last' = [op |-> "friend", user |-> userId, id |-> 0, status |-> 404,
                 body |-> "User not found", email |-> email]
      /\ UNCHANGED <<friends, notifications>>
  ELSE
    LET friend == CHOOSE u \in found : TRUE
        existing == getFriendship(userId, friend)
    IN
    IF existing # {} THEN
      LET existingFriendship == FirstRow(existing) IN
      IF existingFriendship.status = "pending" THEN
        IF AlreadySent(existingFriendship, userId) THEN
          /\ last' = [op |-> "friend", user |-> userId, id |-> friend, status |-> 400,
                     body |-> "Friend request already sent", email |-> email]
          /\ UNCHANGED <<friends, notifications>>
        ELSE
          /\ friends' = updateFriendship(existingFriendship.id, "accepted")
          /\ notifications' = createNotification(notifications,
                 [userId |-> AcceptedNotificationTarget(existingFriendship, userId),
                  type |-> "friend_request_accepted",
                  data |-> NotificationData(userId, 0, 1)])
          /\ last' = [op |-> "friend", user |-> userId, id |-> friend, status |-> 200,
                     body |-> "friendship", email |-> email]
      ELSE
        /\ last' = [op |-> "friend", user |-> userId, id |-> friend, status |-> 400,
                   body |-> "Friendship already exists", email |-> email]
        /\ UNCHANGED <<friends, notifications>>
    ELSE
      /\ friends' = addFriend(userId, friend, "pending")
      /\ notifications' = createNotification(notifications,
             [userId |-> friend, type |-> "friend_request",
              data |-> NotificationData(userId, 0, 1)])
      /\ last' = [op |-> "friend", user |-> userId, id |-> friend, status |-> 201,
                 body |-> "friendship", email |-> email]

FriendRequest ==
  \E userId \in Users, email \in EmailInputs :
    /\ AddFriendByEmail(userId, email)
    /\ UNCHANGED <<groups, groupMembers, expenses, expenseShares, settlements>>
    /\ UNCHANGED <<channel, calls>>

----------------------------------------------------------------------------
(* DatabaseStorage: groups, expenses, settlements, balances *)

RECURSIVE SortedSeq(_)
SortedSeq(S) ==
  IF S = {} THEN <<>>
  ELSE LET m == CHOOSE x \in S : \A y \in S : x <= y
       IN <<m>> \o SortedSeq(S \ {m})

\* users of a group, as the users table returns them
getGroupMembers(groupId) ==
  SortedSeq({u \in Users : \E m \in groupMembers : m.groupId = groupId /\ m.userId = u})

getExpenseShares(expenseId) == {s \in expenseShares : s.expenseId = expenseId}

getExpenses(userId) ==
  {e \in expenses :
     \/ e.paidById = userId
     \/ \E s \in expenseShares : s.userId = userId /\ s.expenseId = e.id}

getSettlements(userId) ==
  {s \in settlements : s.payerId = userId \/ s.receiverId = userId}

RoundCents_Truncated(amount, n) == amount \div n

\* what a numeric(10,2) column keeps of the quotient amount / n (cents, half up)
RoundCents(amount, n) == (2 * amount + n) \div (2 * n)

\* the additions the loop body of getUserBalances makes for one expense: the
\* payer is credited every share that is not the payer's own, anyone else is
\* debited the first share found under their id
ExpenseTerms(userId, e) ==
  IF e.paidById = userId
  THEN {[src |-> "paid", id |-> s.id, key |-> s.userId, amount |-> s.amount] :
          s \in {x \in getExpenseShares(e.id) : x.userId # userId}}
  ELSE {[src |-> "owed", id |-> e.id, key |-> e.paidById,
         amount |-> 0 - FirstRow(mine).amount] :
          mine \in {{x \in getExpenseShares(e.id) : x.userId = userId}} \ {{}}}

\* the additions getUserBalances makes to its balances map, one row per addition
BalanceTerms(userId) ==
  UNION {ExpenseTerms(userId, e) : e \in getExpenses(userId)}
  \cup
  {[src |-> "settlement", id |-> s.id,
    key |-> IF s.payerId = userId THEN s.receiverId ELSE s.payerId,
    amount |-> IF s.payerId = userId THEN 0 - s.amount ELSE s.amount] :
     s \in getSettlements(userId)}

\* DatabaseStorage.getUserBalances: friendBalances maps a counterparty id to
\* an amount; groupBalances is always the empty list
getUserBalances(userId) ==
  LET terms == BalanceTerms(userId)
      keys == {t.key : t \in terms}
  IN [friendBalances |-> [k \in keys |-> SumAmount({t \in terms : t.key = k})],
      groupBalances |-> <<>>]

----------------------------------------------------------------------------
(* POST /api/groups *)

CreateGroup(userId, members) ==
  LET id == NextId(groups)
      others == SortedSeq(members \ {userId})
      memberRows == {[id |-> NextId(groupMembers), groupId |-> id, userId |-> userId]}
                    \cup {[id |-> NextId(groupMembers) + i, groupId |-> id,
                           userId |-> others[i]] : i \in 1..Len(others)}
  IN /\ groups' = groups \cup {[id |-> id, creatorId |-> userId]}
     /\ groupMembers' = groupMembers \cup memberRows
     /\ notifications' = createNotifications(notifications,
            [i \in 1..Len(others) |->
               [userId |-> others[i], type |-> "group_added",
                data |-> NotificationData(id, 0, 1)]])
     /\ last' = [op |-> "group", user |-> userId, id |-> id, status |-> 201]

----------------------------------------------------------------------------
(* POST /api/expenses *)

InvolvedUserIds(userId, splitWith, groupId, friendList) ==
  LET given == IF splitWith = "group" THEN getGroupMembers(groupId) ELSE friendList
  IN IF includes(given, userId) THEN given ELSE Append(given, userId)

ShareAmount_PayerCharged(userId, memberId, totalAmount, n) ==
  RoundCents(totalAmount, n)

\* splitType "equal" and every other split type compute the same shares
ShareAmount(userId, memberId, totalAmount, n) ==
  IF memberId = userId THEN 0 ELSE RoundCents(totalAmount, n)

CreateExpense(userId, amount, splitWith, groupId, friendList) ==
  LET id == NextId(expenses)
      involvedUserIds == InvolvedUserIds(userId, splitWith, groupId, friendList)
      n == Len(involvedUserIds)
      shares == {[id |-> NextId(expenseShares) + i - 1, expenseId |-> id,
                  userId |-> involvedUserIds[i],
                  amount |-> ShareAmount(userId, involvedUserIds[i], amount, n)] :
                   i \in 1..n}
      notified == SelectSeq(involvedUserIds, LAMBDA m : m # userId)
  IN /\ expenses' = expenses \cup
          {[id |-> id, paidById |-> userId, amount |-> amount,
            groupId |-> IF splitWith = "group" THEN groupId ELSE NoGroup]}
     /\ expenseShares' = expenseShares \cup shares
     /\ notifications' = createNotifications(notifications,
            [i \in 1..Len(notified) |->
               [userId |-> notified[i], type |-> "expense_added",
                data |-> NotificationData(id, amount, n)]])
     /\ last' = [op |-> "expense", user |-> userId, id |-> id, status |-> 201]

----------------------------------------------------------------------------
(* POST /api/settlements *)

Abs_Signed(x) == x

\* Math.abs
Abs(x) == IF x < 0 THEN 0 - x ELSE x

\* line 690: the caller owes this friend nothing
OwesNothing_Strict(amount) == amount > 0

OwesNothing(amount) == amount >= 0

CreateSettlement(userId, friendId) ==
  LET friendBalances == getUserBalances(userId).friendBalances IN
  IF friendId \notin DOMAIN friendBalances THEN
      /\ last' = [op |-> "settlement", user |-> userId, id |-> friendId, status |-> 404]
      /\ UNCHANGED <<settlements, notifications>>
  ELSE IF OwesNothing(friendBalances[friendId]) THEN
      /\ last' = [op |-> "settlement", user |-> userId, id |-> friendId, status |-> 400]
      /\ UNCHANGED <<settlements, notifications>>
  ELSE
      /\ settlements' = settlements \cup
           {[id |-> NextId(settlements), payerId |-> userId, receiverId |-> friendId,
             amount |-> Abs(friendBalances[friendId])]}
      /\ notifications' = createNotification(notifications,
             [userId |-> friendId, type |-> "settlement_received",
              data |-> NotificationData(NextId(settlements),
                                        Abs(friendBalances[friendId]), 1)])
      /\ last' = [op |-> "settlement", user |-> userId, id |-> friendId, status |-> 201]

----------------------------------------------------------------------------
(* requests *)

GroupRequest ==
  \E userId \in Users, members \in SUBSET Users :
    /\ Cardinality(groups) < MaxGroups
    /\ CreateGroup(userId, members)
    /\ UNCHANGED <<friends, expenses, expenseShares, settlements>>
    /\ UNCHANGED <<channel, calls>>

DirectExpenseRequest ==
  \E userId \in Payers, amount \in Amounts, friendList \in FriendLists :
    /\ Cardinality(expenses) < MaxExpenses
    /\ CreateExpense(userId, amount, "friends", NoGroup, friendList)
    /\ UNCHANGED <<friends, groups, groupMembers, settlements>>
    /\ UNCHANGED <<channel, calls>>

GroupExpenseRequest ==
  \E userId \in Users, amount \in Amounts, g \in groups :
    /\ Cardinality(expenses) < MaxExpenses
    /\ CreateExpense(userId, amount, "group", g.id, <<>>)
    /\ UNCHANGED <<friends, groups, groupMembers, settlements>>
    /\ UNCHANGED <<channel, calls>>

SettlementRequest ==
  \E userId \in Users : \E friendId \in Users \ {userId} :
    /\ Cardinality(settlements) < MaxSettlements
    /\ CreateSettlement(userId, friendId)
    /\ UNCHANGED <<friends, groups, groupMembers, expenses, expenseShares>>
    /\ UNCHANGED <<channel, calls>>

----------------------------------------------------------------------------

Init ==
  /\ friends = {}
  /\ groups = {}
  /\ groupMembers = {}
  /\ expenses = {}
  /\ expenseShares = {}
  /\ settlements = {}
  /\ notifications = {}
  /\ last = NoRequest
  /\ subscriptions = NoSubscriptions
  /\ sockets = [c \in Conns |-> [readyState |-> "CONNECTING", userId |-> 0, auths |-> 0]]
  /\ inbox = [c \in Conns |-> <<>>]
  /\ calls = <<>>

\* In SpecFriends, SpecLedger and SpecGroup every request is handled from
\* start to end before the next one and no socket ever connects, so
\* broadcastToUser finds no subscription and sends nothing.
NextFriends == FriendRequest

SpecFriends == Init /\ [][NextFriends]_vars

NextLedger ==
  \/ DirectExpenseRequest
  \/ SettlementRequest

SpecLedger == Init /\ [][NextLedger]_vars

NextGroup ==
  \/ GroupRequest
  \/ GroupExpenseRequest
  \/ SettlementRequest

SpecGroup == Init /\ [][NextGroup]_vars

----------------------------------------------------------------------------
(* DatabaseStorage: the subscriptions map and the push of a notification *)

MaxCalls == 2

subscribeToNotifications(userId, ws) ==
  IF userId \in DOMAIN subscriptions
  THEN [subscriptions EXCEPT ![userId] = Append(@, ws)]
  ELSE [u \in DOMAIN subscriptions \cup {userId} |->
          IF u = userId THEN <<ws>> ELSE subscriptions[u]]

NoneLeft_Ignored(rest) == FALSE

\* this.subscriptions[userId].length === 0
NoneLeft(rest) == Len(rest) = 0

unsubscribeFromNotifications(userId, ws) ==
  IF userId \notin DOMAIN subscriptions THEN subscriptions
  ELSE LET rest == SelectSeq(subscriptions[userId], LAMBDA conn : conn # ws)
       IN IF NoneLeft(rest)
          THEN [u \in DOMAIN subscriptions \ {userId} |-> subscriptions[u]]
          ELSE [subscriptions EXCEPT ![userId] = rest]

\* ws.readyState === WebSocket.OPEN
IsOpen(ws) == sockets[ws].readyState = "OPEN"

\* the sockets broadcastToUser calls send on, in the order of its loop
Targets(userId) ==
  IF userId \notin DOMAIN subscriptions THEN <<>>
  ELSE SelectSeq(subscriptions[userId], IsOpen)

\* what the sockets have been sent once the loop of broadcastToUser has made
\* its first `sent` calls of ws.send
broadcastToUser(userId, message, sent) ==
  [c \in Conns |->
     inbox[c] \o [i \in 1..Cardinality({j \in 1..sent : Targets(userId)[j] = c})
                    |-> message]]

\* ws.send is the ws library's: it returns, or it raises.  The loop has no
\* try/catch, so with `sent` sends made before one raises the outcomes are
\* 0..Len(Targets); Len(Targets) is the loop running to its end.
SendOutcomes(userId) == 0..Len(Targets(userId))

Raised(userId, sent) == sent < Len(Targets(userId))

InsertThenPush_RolledBack(n, sent) ==
  IF sent < Len(Targets(n.userId)) THEN notifications
  ELSE createNotification(notifications, n)

\* the notifications table after createNotification: the insert is awaited
\* before broadcastToUser is called, so a send that raises undoes nothing
InsertThenPush(n, sent) == createNotification(notifications, n)

\* DatabaseStorage.createNotification as one step of a handler: the insert,
\* then broadcastToUser
Notify(n, sent) ==
  /\ notifications' = InsertThenPush(n, sent)
  /\ inbox' = broadcastToUser(n.userId,
                 [type |-> "notification", data |-> NotificationRow(notifications, n)],
                 sent)

\* a handler that has answered: status is 0 until then
Answered(call, status) == [call EXCEPT !.pc = "done", !.status = status]

----------------------------------------------------------------------------
(* POST /api/friends/email, one step per awaited storage call that matters:
   the lookups, the write to friends, the notification *)

\* result[0] of a select without ORDER BY, as a set of at most one row: any
\* row of the result may come first
ResultZero(rows) == IF rows = {} THEN {{}} ELSE {{r} : r \in rows}

\* acceptedBefore records whether the pair had an accepted friendship when
\* the request arrived
FriendLookup(userId, email) ==
  LET found == getUserByEmail(email) IN
  /\ UNCHANGED <<friends, notifications, inbox>>
  /\ IF EmailOf(userId) = email THEN
        /\ calls' = Append(calls, [op |-> "friend", pc |-> "done", status |-> 400,
                                   userId |-> userId, friend |-> userId,
                                   existing |-> {}, acceptedBefore |-> FALSE])
        /\ last' = [op |-> "friend", user |-> userId, id |-> userId, status |-> 400,
                    body |-> "You cannot add yourself as a friend"]
     ELSE IF found = {} THEN
        /\ calls' = Append(calls, [op |-> "friend", pc |-> "done", status |-> 404,
                                   userId |-> userId, friend |-> 0,
                                   existing |-> {}, acceptedBefore |-> FALSE])
        /\ last' = [op |-> "friend", user |-> userId, id |-> 0, status |-> 404,
                    body |-> "User not found"]
     ELSE
        LET friend == CHOOSE u \in found : TRUE IN
        /\ \E existing \in ResultZero(getFriendship(userId, friend)) :
             calls' = Append(calls,
                 [op |-> "friend", pc |-> "found", status |-> 0,
                  userId |-> userId, friend |-> friend, existing |-> existing,
                  acceptedBefore |-> \E f \in getFriendship(userId, friend) :
                                       f.status = "accepted"])
        /\ UNCHANGED last

FriendWrite(i) ==
  LET call == calls[i] IN
  /\ call.op = "friend" /\ call.pc = "found"
  /\ UNCHANGED <<notifications, inbox>>
  /\ IF call.existing # {} THEN
       LET existingFriendship == FirstRow(call.existing) IN
       IF existingFriendship.status = "pending" THEN
         IF AlreadySent(existingFriendship, call.userId) THEN
           /\ calls' = [calls EXCEPT ![i] = Answered(call, 400)]
           /\ last' = [op |-> "friend", user |-> call.userId, id |-> call.friend,
                       status |-> 400, body |-> "Friend request already sent"]
           /\ UNCHANGED friends
         ELSE
           /\ friends' = updateFriendship(existingFriendship.id, "accepted")
           /\ calls' = [calls EXCEPT ![i].pc = "accepted"]
           /\ UNCHANGED last
       ELSE
         /\ calls' = [calls EXCEPT ![i] = Answered(call, 400)]
         /\ last' = [op |-> "friend", user |-> call.userId, id |-> call.friend,
                     status |-> 400, body |-> "Friendship already exists"]
         /\ UNCHANGED friends
     ELSE
       /\ friends' = addFriend(call.userId, call.friend, "pending")
       /\ calls' = [calls EXCEPT ![i].pc = "added"]
       /\ UNCHANGED last

FriendNotify(i) ==
  LET call == calls[i]
      n == IF call.pc = "accepted"
           THEN [userId |-> AcceptedNotificationTarget(FirstRow(call.existing),
                                                       call.userId),
                 type |-> "friend_request_accepted",
                 data |-> NotificationData(call.userId, 0, 1)]
           ELSE [userId |-> call.friend, type |-> "friend_request",
                 data |-> NotificationData(call.userId, 0, 1)]
  IN
  /\ call.op = "friend" /\ call.pc \in {"accepted", "added"}
  /\ \E sent \in SendOutcomes(n.userId) :
       LET status == IF Raised(n.userId, sent) THEN 500
                     ELSE IF call.pc = "accepted" THEN 200 ELSE 201
       IN /\ Notify(n, sent)
          /\ calls' = [calls EXCEPT ![i] = Answered(call, status)]
          /\ last' = [op |-> "friend", user |-> call.userId, id |-> call.friend,
                      status |-> status,
                      body |-> IF status = 500 THEN "Server error" ELSE "friendship"]
  /\ UNCHANGED friends

FriendLookupStep ==
  \E userId \in Users, email \in EmailInputs :
    /\ Len(calls) < MaxCalls
    /\ FriendLookup(userId, email)
    /\ UNCHANGED <<groups, groupMembers, expenses, expenseShares, settlements,
                   subscriptions, sockets>>

FriendWriteStep ==
  \E i \in DOMAIN calls :
    /\ FriendWrite(i)
    /\ UNCHANGED <<groups, groupMembers, expenses, expenseShares, settlements,
                   subscriptions, sockets>>

FriendNotifyStep ==
  \E i \in DOMAIN calls :
    /\ FriendNotify(i)
    /\ UNCHANGED <<groups, groupMembers, expenses, expenseShares, settlements,
                   subscriptions, sockets>>

\* friend requests whose handlers interleave at their awaits
NextFriendRace ==
  \/ FriendLookupStep
  \/ FriendWriteStep
  \/ FriendNotifyStep

SpecFriendRace == Init /\ [][NextFriendRace]_vars

----------------------------------------------------------------------------
(* the WebSocket server at /ws and notifications created while sockets are
   connected *)

MaxAuths == 2
MaxNotifications == 2

\* user ids the auth messages name, and users notifications are created for
Subscribers == {1, 2}

getNotifications(userId) == {n \in notifications : n.userId = userId}

\* wss.on('connection'): the closure starts with userId = null
Connect(c) ==
  /\ sockets[c].readyState = "CONNECTING"
  /\ sockets' = [sockets EXCEPT ![c].readyState = "OPEN"]
  /\ UNCHANGED <<subscriptions, inbox>>

\* ws.on('message') with {type: 'auth', userId}: the reply is sent inside the
\* handler's try block, so a send that raises is caught there
OnMessage(c, userId) ==
  /\ sockets[c].readyState = "OPEN"
  /\ SumAmount({[id |-> x, amount |-> sockets[x].auths] : x \in Conns}) < MaxAuths
  /\ sockets' = [sockets EXCEPT ![c].userId = userId, ![c].auths = @ + 1]
  /\ subscriptions' = subscribeToNotifications(userId, c)
  /\ \E sendReturns \in BOOLEAN :
       inbox' = IF sendReturns
                THEN [inbox EXCEPT ![c] = Append(@, [type |-> "auth_success"])]
                ELSE inbox

\* the closing handshake has begun: readyState is no longer OPEN, the close
\* event has not been emitted yet
SocketClosing(c) ==
  /\ sockets[c].readyState = "OPEN"
  /\ sockets' = [sockets EXCEPT ![c].readyState = "CLOSING"]
  /\ UNCHANGED <<subscriptions, inbox>>

\* ws.on('close')
OnClose(c) ==
  /\ sockets[c].readyState \in {"OPEN", "CLOSING"}
  /\ sockets' = [sockets EXCEPT ![c].readyState = "CLOSED"]
  /\ subscriptions' = IF sockets[c].userId # 0
                      THEN unsubscribeFromNotifications(sockets[c].userId, c)
                      ELSE subscriptions
  /\ UNCHANGED inbox

\* one call of storage.createNotification by a request handler
CreateNotificationCall(userId) ==
  LET n == [userId |-> userId, type |-> "payment_reminder",
            data |-> NotificationData(0, 0, 1)]
  IN /\ Cardinality(notifications) < MaxNotifications
     /\ \E sent \in SendOutcomes(userId) :
          /\ Notify(n, sent)
          /\ last' = [op |-> "notify", user |-> userId, id |-> NextId(notifications),
                      status |-> IF Raised(userId, sent) THEN 500 ELSE 200,
                      sent |-> sent]
     /\ UNCHANGED <<subscriptions, sockets>>

ConnectStep ==
  \E c \in Conns :
    /\ Connect(c)
    /\ UNCHANGED <<Ledger, last, calls>>

OnMessageStep ==
  \E c \in Conns, userId \in Subscribers :
    /\ OnMessage(c, userId)
    /\ UNCHANGED <<Ledger, last, calls>>

SocketClosingStep ==
  \E c \in Conns :
    /\ SocketClosing(c)
    /\ UNCHANGED <<Ledger, last, calls>>

OnCloseStep ==
  \E c \in Conns :
    /\ OnClose(c)
    /\ UNCHANGED <<Ledger, last, calls>>

CreateNotificationStep ==
  \E userId \in Subscribers :
    /\ CreateNotificationCall(userId)
    /\ UNCHANGED <<friends, groups, groupMembers, expenses, expenseShares,
                   settlements, calls>>

NextChannel ==
  \/ ConnectStep
  \/ OnMessageStep
  \/ SocketClosingStep
  \/ OnCloseStep
  \/ CreateNotificationStep

SpecChannel == Init /\ [][NextChannel]_vars

----------------------------------------------------------------------------
(* POST /api/expenses and POST /api/settlements, one step per awaited storage
   call that writes; requests in flight interleave at these awaits *)

\* a user id no row of the users table has
UnknownUser == 9

\* what the requests handled step by step carry
StepPayers == {1}
StepSettlers == {2}
StepConns == {1}
StepSubscribers == {2}
StepAmounts == {300}
StepFriendLists == {<<2>>, <<2, UnknownUser>>}

SharesWritten_AfterFirst(call) == TRUE

\* the loop over shares has made its last insert
SharesWritten(call) == call.next = Len(call.involvedUserIds)

\* up to and including await storage.createExpense(expenseData, [])
ExpenseInsert(userId, amount, friendList) ==
  LET id == NextId(expenses) IN
  /\ Len(calls) < MaxCalls
  /\ expenses' = expenses \cup
        {[id |-> id, paidById |-> userId, amount |-> amount, groupId |-> NoGroup]}
  /\ calls' = Append(calls,
        [op |-> "expense", pc |-> "shares", status |-> 0, userId |-> userId,
         expenseId |-> id, amount |-> amount, next |-> 1,
         involvedUserIds |-> InvolvedUserIds(userId, "friends", NoGroup, friendList)])
  /\ UNCHANGED <<expenseShares, notifications, inbox, last>>

\* one await storage.addExpenseShare(share); expense_shares.user_id references
\* users.id, so the insert of a share for an unknown user raises
ShareInsert(i) ==
  LET call == calls[i]
      memberId == call.involvedUserIds[call.next]
      n == Len(call.involvedUserIds)
  IN
  /\ call.op = "expense" /\ call.pc = "shares"
  /\ UNCHANGED <<expenses, notifications, inbox>>
  /\ IF memberId \notin Users THEN
       /\ calls' = [calls EXCEPT ![i] = Answered(call, 500)]
       /\ last' = [op |-> "expense", user |-> call.userId, id |-> call.expenseId,
                   status |-> 500]
       /\ UNCHANGED expenseShares
     ELSE
       /\ expenseShares' = expenseShares \cup
             {[id |-> NextId(expenseShares), expenseId |-> call.expenseId,
               userId |-> memberId,
               amount |-> ShareAmount(call.userId, memberId, call.amount, n)]}
       /\ calls' = IF SharesWritten(call)
                   THEN [calls EXCEPT ![i].pc = "notify", ![i].next = 1]
                   ELSE [calls EXCEPT ![i].next = @ + 1]
       /\ UNCHANGED last

\* the notification loop up to its next await storage.createNotification, or
\* the response when the loop is over
ExpenseNotify(i) ==
  LET call == calls[i]
      n == Len(call.involvedUserIds)
      rest == {j \in call.next..n : call.involvedUserIds[j] # call.userId}
  IN
  /\ call.op = "expense" /\ call.pc = "notify"
  /\ UNCHANGED <<expenses, expenseShares>>
  /\ IF rest = {} THEN
       /\ calls' = [calls EXCEPT ![i] = Answered(call, 201)]
       /\ last' = [op |-> "expense", user |-> call.userId, id |-> call.expenseId,
                   status |-> 201]
       /\ UNCHANGED <<notifications, inbox>>
     ELSE
       LET j == CHOOSE x \in rest : \A y \in rest : x <= y
           memberId == call.involvedUserIds[j]
       IN \E sent \in SendOutcomes(memberId) :
            /\ Notify([userId |-> memberId, type |-> "expense_added",
                       data |-> NotificationData(call.expenseId, call.amount, n)],
                      sent)
            /\ IF Raised(memberId, sent)
               THEN /\ calls' = [calls EXCEPT ![i] = Answered(call, 500)]
                    /\ last' = [op |-> "expense", user |-> call.userId,
                                id |-> call.expenseId, status |-> 500]
               ELSE /\ calls' = [calls EXCEPT ![i].next = j + 1]
                    /\ UNCHANGED last

\* up to the checks on the balance read by await storage.getUserBalances
SettlementRead(userId, friendId) ==
  LET friendBalances == getUserBalances(userId).friendBalances
      status == IF friendId \notin DOMAIN friendBalances THEN 404
                ELSE IF OwesNothing(friendBalances[friendId]) THEN 400 ELSE 0
  IN
  /\ Len(calls) < MaxCalls
  /\ calls' = Append(calls,
        [op |-> "settlement", pc |-> IF status = 0 THEN "settle" ELSE "done",
         status |-> status, userId |-> userId, friendId |-> friendId,
         settlementId |-> 0,
         amount |-> IF status = 0 THEN Abs(friendBalances[friendId]) ELSE 0])
  /\ last' = IF status = 0 THEN last
             ELSE [op |-> "settlement", user |-> userId, id |-> friendId,
                   status |-> status]
  /\ UNCHANGED <<settlements, notifications, inbox>>

\* await storage.createSettlement
SettlementInsert(i) ==
  LET call == calls[i] IN
  /\ call.op = "settlement" /\ call.pc = "settle"
  /\ settlements' = settlements \cup
        {[id |-> NextId(settlements), payerId |-> call.userId,
          receiverId |-> call.friendId, amount |-> call.amount]}
  /\ calls' = [calls EXCEPT ![i].pc = "notify",
                            ![i].settlementId = NextId(settlements)]
  /\ UNCHANGED <<notifications, inbox, last>>

\* await storage.createNotification and the response
SettlementNotify(i) ==
  LET call == calls[i] IN
  /\ call.op = "settlement" /\ call.pc = "notify"
  /\ UNCHANGED settlements
  /\ \E sent \in SendOutcomes(call.friendId) :
       LET status == IF Raised(call.friendId, sent) THEN 500 ELSE 201 IN
       /\ Notify([userId |-> call.friendId, type |-> "settlement_received",
                  data |-> NotificationData(call.settlementId, call.amount, 1)],
                 sent)
       /\ calls' = [calls EXCEPT ![i] = Answered(call, status)]
       /\ last' = [op |-> "settlement", user |-> call.userId,
                   id |-> call.friendId, status |-> status]

ExpenseInsertStep ==
  \E userId \in StepPayers, amount \in StepAmounts, friendList \in StepFriendLists :
    /\ ExpenseInsert(userId, amount, friendList)
    /\ UNCHANGED <<friends, groups, groupMembers, settlements, subscriptions, sockets>>

ShareInsertStep ==
  \E i \in DOMAIN calls :
    /\ ShareInsert(i)
    /\ UNCHANGED <<friends, groups, groupMembers, settlements, subscriptions, sockets>>

ExpenseNotifyStep ==
  \E i \in DOMAIN calls :
    /\ ExpenseNotify(i)
    /\ UNCHANGED <<friends, groups, groupMembers, settlements, subscriptions, sockets>>

SettlementReadStep ==
  \E userId \in StepSettlers : \E friendId \in StepPayers :
    /\ SettlementRead(userId, friendId)
    /\ UNCHANGED <<friends, groups, groupMembers, expenses, expenseShares,
                   subscriptions, sockets>>

SettlementInsertStep ==
  \E i \in DOMAIN calls :
    /\ SettlementInsert(i)
    /\ UNCHANGED <<friends, groups, groupMembers, expenses, expenseShares,
                   subscriptions, sockets>>

SettlementNotifyStep ==
  \E i \in DOMAIN calls :
    /\ SettlementNotify(i)
    /\ UNCHANGED <<friends, groups, groupMembers, expenses, expenseShares,
                   subscriptions, sockets>>

StepConnect ==
  \E c \in StepConns :
    /\ Connect(c)
    /\ UNCHANGED <<Ledger, last, calls>>

StepOnMessage ==
  \E c \in StepConns, userId \in StepSubscribers :
    /\ OnMessage(c, userId)
    /\ UNCHANGED <<Ledger, last, calls>>

\* expense and settlement requests in flight together, with sockets
\* connecting and subscribing meanwhile
NextSteps ==
  \/ StepConnect
  \/ StepOnMessage
  \/ ExpenseInsertStep
  \/ ShareInsertStep
  \/ ExpenseNotifyStep
  \/ SettlementReadStep
  \/ SettlementInsertStep
  \/ SettlementNotifyStep

SpecSteps == Init /\ [][NextSteps]_vars

----------------------------------------------------------------------------
(* what the routes read out of a balance query *)

\* friendBalances.find(b => b.id === friendId)?.amount || 0
FriendAmount(userId, friendId) ==
  LET friendBalances == getUserBalances(userId).friendBalances
  IN IF friendId \in DOMAIN friendBalances THEN friendBalances[friendId] ELSE 0

\* the shares of an expense that are not its payer's own
OthersShares(e) == {s \in getExpenseShares(e.id) : s.userId # e.paidById}

SharesOf(e, userId) == {s \in getExpenseShares(e.id) : s.userId = userId}

\* r is the quotient amount / n rounded to the nearest cent
IsNearestCent(r, amount, n) == 2 * amount - n < 2 * n * r /\ 2 * n * r <= 2 * amount + n

----------------------------------------------------------------------------
(* C1 - C5: direct expenses and settlements, under SpecLedger *)

\* C1: right after a successful settlement by U toward F, the balance query
\* reports 0 between them, in both directions.
C1_SettledBalanceIsZero ==
  (last.op = "settlement" /\ last.status = 201) =>
     /\ FriendAmount(last.user, last.id) = 0
     /\ FriendAmount(last.id, last.user) = 0

\* C2: a settlement request by U toward F is rejected whenever U's balance with
\* F is >= 0, and a rejected request (balance >= 0, or F absent from U's
\* balances) leaves every table as it was: no settlement, no notification.
C2_RejectedSettlementLeavesLedger ==
  [][last'.op = "settlement" =>
       LET friendBalances == getUserBalances(last'.user).friendBalances IN
       /\ (last'.id \in DOMAIN friendBalances /\ friendBalances[last'.id] >= 0)
             => last'.status = 400
       /\ last'.id \notin DOMAIN friendBalances => last'.status = 404
       /\ last'.status # 201 => Ledger' = Ledger]_vars

\* a request was rejected although the friend is in the balances, at balance 0
C2_Witness ==
  /\ last.op = "settlement" /\ last.status = 400
  /\ last.id \in DOMAIN getUserBalances(last.user).friendBalances
  /\ FriendAmount(last.user, last.id) = 0

\* C3: the balance query is antisymmetric between any two users: what U's
\* query reports for F is the negation of what F's query reports for U.
C3_Antisymmetric ==
  \A u, f \in Users : u # f => FriendAmount(u, f) = 0 - FriendAmount(f, u)

\* C4 as stated: the persisted shares of every expense sum to its amount, and
\* the payer's own share is 0.
C4_SharesSumToAmount ==
  \A e \in expenses :
     /\ SumAmount(getExpenseShares(e.id)) = e.amount
     /\ \A s \in SharesOf(e, e.paidById) : s.amount = 0

\* C4 amended: the payer's own share is 0, every other share is the amount
\* divided by the number N of participants, rounded to the nearest cent, and
\* the persisted shares therefore sum to that rounded quotient times the
\* number of shares that are not the payer's.
C4_SharesSumToOthersPortion ==
  \A e \in expenses :
     LET n == Cardinality(getExpenseShares(e.id)) IN
     /\ n >= 1
     /\ \A s \in SharesOf(e, e.paidById) : s.amount = 0
     /\ \A s \in OthersShares(e) : IsNearestCent(s.amount, e.amount, n)
     /\ \E r \in 0..e.amount :
          /\ IsNearestCent(r, e.amount, n)
          /\ SumAmount(getExpenseShares(e.id)) = r * Cardinality(OthersShares(e))

\* an expense of 2.00 among three participants: 0.67 each, 1.34 in all
C4_Witness ==
  \E e \in expenses :
     /\ e.amount = 200
     /\ Cardinality(getExpenseShares(e.id)) = 3
     /\ Cardinality(OthersShares(e)) = 2
     /\ SumAmount(getExpenseShares(e.id)) = 134

\* the expense created by the request handled last, in the state after it
NewExpense == CHOOSE e \in expenses : e.id = last.id

\* C5 as stated: a direct expense of amount A created by U with N participants
\* persists A/N for every other participant and 0 for U, raises balance(U,F)
\* by exactly A/N and lowers balance(F,U) by exactly A/N for every other
\* participant F, and leaves the balances with non-participants unchanged.
C5_DirectExpenseMovesBalancesByQuotient ==
  [][last'.op = "expense" =>
       \A e \in expenses' : e.id = last'.id =>
       \A u \in {e.paidById}, n \in {Cardinality(getExpenseShares(e.id)')} :
          /\ \A s \in SharesOf(e, u)' : s.amount = 0
          /\ \A s \in OthersShares(e)' : n * s.amount = e.amount
          /\ \A f \in Users \ {u} :
               IF SharesOf(e, f)' # {}
               THEN /\ n * (FriendAmount(u, f)' - FriendAmount(u, f)) = e.amount
                    /\ n * (FriendAmount(f, u) - FriendAmount(f, u)') = e.amount
               ELSE /\ FriendAmount(u, f)' = FriendAmount(u, f)
                    /\ FriendAmount(f, u)' = FriendAmount(f, u)]_vars

\* C5 amended: every other participant's persisted share is A/N rounded to
\* the nearest cent, and U's share is 0; for every other participant F,
\* balance(F,U) falls by exactly that share and balance(U,F) rises by it once
\* for each time the participant list names F (by exactly the share when it
\* names F once); balances with users who are not participants are unchanged.
C5_DirectExpenseMovesBalancesByShare ==
  [][last'.op = "expense" =>
       \A e \in expenses' : e.id = last'.id =>
       \A u \in {e.paidById}, n \in {Cardinality(getExpenseShares(e.id)')} :
          /\ \A s \in SharesOf(e, u)' : s.amount = 0
          /\ \A s \in OthersShares(e)' : IsNearestCent(s.amount, e.amount, n)
          /\ \A f \in Users \ {u} :
               IF SharesOf(e, f)' # {}
               THEN \A s \in SharesOf(e, f)' :
                      /\ IsNearestCent(s.amount, e.amount, n)
                      /\ FriendAmount(u, f)' - FriendAmount(u, f)
                           = s.amount * Cardinality(SharesOf(e, f)')
                      /\ FriendAmount(f, u) - FriendAmount(f, u)' = s.amount
               ELSE /\ FriendAmount(u, f)' = FriendAmount(u, f)
                    /\ FriendAmount(f, u)' = FriendAmount(f, u)]_vars

\* a second expense, split three ways, has moved a balance that was not zero
C5_Witness ==
  /\ last.op = "expense" /\ last.id = 2
  /\ Cardinality(getExpenseShares(2)) = 3
  /\ \E f \in Users : Cardinality(SharesOf(NewExpense, f)) = 1
                      /\ f # NewExpense.paidById
                      /\ FriendAmount(NewExpense.paidById, f) \notin {0, 67, 100}

----------------------------------------------------------------------------
(* group balances *)

getGroupExpenses(groupId) == {e \in expenses : e.groupId = groupId}

\* groupBalances.find(b => b.id === group.id)?.amount || 0
GroupAmount(userId, groupId) ==
  LET groupBalances == getUserBalances(userId).groupBalances
      found == {i \in DOMAIN groupBalances : groupBalances[i].id = groupId}
  IN IF found = {} THEN 0
     ELSE groupBalances[CHOOSE i \in found : \A j \in found : i <= j].amount

\* the additions the group loop of MemStorage.getUserBalances (and the member
\* loop of GET /api/groups/:id) makes for one expense of the group
GroupExpenseTerms(userId, e) ==
  IF e.paidById = userId
  THEN {[src |-> "paid", id |-> s.id, amount |-> s.amount] :
          s \in {x \in getExpenseShares(e.id) : x.userId # userId}}
  ELSE {[src |-> "owed", id |-> e.id, amount |-> 0 - FirstRow(mine).amount] :
          mine \in {{x \in getExpenseShares(e.id) : x.userId = userId}} \ {{}}}

\* the same, with the user's settlements netted in
MemGroupBalance_Netted(userId, groupId) ==
  SumAmount(UNION {GroupExpenseTerms(userId, e) : e \in getGroupExpenses(groupId)})
  - SumAmount({s \in settlements : s.payerId = userId})
  + SumAmount({s \in settlements : s.receiverId = userId})

\* the group balance that loop arrives at for a user and a group
MemGroupBalance(userId, groupId) ==
  SumAmount(UNION {GroupExpenseTerms(userId, e) : e \in getGroupExpenses(groupId)})

----------------------------------------------------------------------------
(* C6 - C8: group expenses, under SpecGroup *)

\* C6: for user U and every friend F the balance query of U reports, the
\* amount is the sum of F's shares in expenses U paid outside any group, minus
\* the sum of U's shares in expenses F paid outside any group, minus the
\* settlements U paid to F, plus the settlements F paid to U; an expense that
\* belongs to a group contributes nothing.
C6_FriendBalanceFormula ==
  \A u \in Users :
    \A f \in DOMAIN getUserBalances(u).friendBalances :
      getUserBalances(u).friendBalances[f] =
          SumAmount({s \in expenseShares :
                       /\ s.userId = f
                       /\ \E e \in expenses : /\ e.id = s.expenseId
                                              /\ e.paidById = u
                                              /\ e.groupId = NoGroup})
        - SumAmount({s \in expenseShares :
                       /\ s.userId = u
                       /\ \E e \in expenses : /\ e.id = s.expenseId
                                              /\ e.paidById = f
                                              /\ e.groupId = NoGroup})
        - SumAmount({s \in settlements : s.payerId = u /\ s.receiverId = f})
        + SumAmount({s \in settlements : s.payerId = f /\ s.receiverId = u})

\* C7: for every group G and every member U of G, the group balance the
\* balance query of U gives for G is the sum, over G's expenses U paid, of
\* every other participant's share, minus the sum, over G's expenses U did
\* not pay, of U's own share.
C7_GroupBalanceFormula ==
  \A g \in groups :
    \A u \in Range(getGroupMembers(g.id)) :
      GroupAmount(u, g.id) =
          SumAmount({s \in expenseShares :
                       /\ s.userId # u
                       /\ \E e \in getGroupExpenses(g.id) :
                            e.id = s.expenseId /\ e.paidById = u})
        - SumAmount({s \in expenseShares :
                       /\ s.userId = u
                       /\ \E e \in getGroupExpenses(g.id) :
                            e.id = s.expenseId /\ e.paidById # u})

\* C8: after any sequence of group creations and group expenses, the group
\* balances of the members of a group sum to 0, for every group.
C8_GroupBalancesNetToZero ==
  \A g \in groups :
    SumAmount({[id |-> u, amount |-> MemGroupBalance(u, g.id)] :
                 u \in Range(getGroupMembers(g.id))}) = 0

----------------------------------------------------------------------------
(* C9, C10: friend requests, under SpecFriends *)

\* the record, if any, of a pending request from one user to another
PendingFrom(userId, friendId) ==
  {f \in friends : f.userId = userId /\ f.friendId = friendId /\ f.status = "pending"}

\* C9: when A requests B while A's own earlier request to B is pending, the
\* call is rejected with 400 'Friend request already sent', no friendship
\* record and no notification is created, and the pair still has exactly one
\* record, which is pending.
C9_RepeatedRequestRejected ==
  [][\A a \in {last'.user}, b \in {last'.id} :
       (last'.op = "friend" /\ PendingFrom(a, b) # {}) =>
          /\ last'.status = 400
          /\ last'.body = "Friend request already sent"
          /\ friends' = friends
          /\ notifications' = notifications
          /\ Cardinality(getFriendship(a, b)') = 1
          /\ Cardinality(PendingFrom(a, b)') = 1]_vars

\* a request was rejected as already sent, and its pending record is there
C9_Witness ==
  /\ last.op = "friend" /\ last.status = 400
  /\ last.body = "Friend request already sent"
  /\ Cardinality(PendingFrom(last.user, last.id)) = 1
  /\ Cardinality(notifications) >= 2

\* C10: when A requests B while a request from B to A is pending, no
\* friendship record is created, the existing record becomes accepted and is
\* the only record of the pair, and exactly one notification is created: a
\* friend_request_accepted addressed to B, none to A.
C10_MutualRequestMerged ==
  [][\A a \in {last'.user}, b \in {last'.id} :
       (last'.op = "friend" /\ PendingFrom(b, a) # {}) =>
          \A f \in PendingFrom(b, a) :
            /\ last'.status = 200
            /\ friends' = (friends \ {f}) \cup {[f EXCEPT !.status = "accepted"]}
            /\ getFriendship(a, b)' = {[f EXCEPT !.status = "accepted"]}
            /\ Cardinality(notifications' \ notifications) = 1
            /\ notifications \subseteq notifications'
            /\ \A n \in notifications' \ notifications :
                 /\ n.type = "friend_request_accepted"
                 /\ n.userId = b
                 /\ n.userId # a]_vars

\* a request was answered by accepting the other user's pending request
C10_Witness ==
  /\ last.op = "friend" /\ last.status = 200
  /\ \E f \in getFriendship(last.user, last.id) :
       f.userId = last.id /\ f.friendId = last.user /\ f.status = "accepted"
  /\ \E n \in notifications :
       n.type = "friend_request_accepted" /\ n.userId = last.id

----------------------------------------------------------------------------
(* C11: friend requests in flight together, under SpecFriendRace *)

\* C11: under any interleaving of friend-request handlers there is at most
\* one friendship record per unordered pair of users, whoever initiated.
C11_OneRecordPerPair ==
  \A a, b \in Users : Cardinality(getFriendship(a, b)) <= 1

----------------------------------------------------------------------------
(* C14, C16 - C19: the connection registry and the push, under SpecChannel *)

\* the notification messages a socket has been sent that carry row id
PushesOf(c, id) ==
  {i \in DOMAIN inbox[c] :
     inbox[c][i].type = "notification" /\ inbox[c][i].data.id = id}

Registered(userId) ==
  IF userId \in DOMAIN subscriptions THEN Range(subscriptions[userId]) ELSE {}

\* C14: createNotification stores the record before any push is attempted:
\* whatever a socket has been sent is a stored row; the row a call creates
\* for user T is among T's notifications after the call, whether T had no
\* connection, a live one, or one on which the send raised; and no later step
\* takes a stored row away from its user.
C14_StoredBeforePush ==
  [][/\ \A n \in notifications :
          \E m \in notifications' : m.id = n.id /\ m.userId = n.userId
     /\ last'.op = "notify" =>
          \E n \in notifications' : n.id = last'.id /\ n.userId = last'.user
     /\ \A c \in Conns : \A i \in DOMAIN inbox'[c] :
          inbox'[c][i].type = "notification" =>
             inbox'[c][i].data \in notifications']_vars

\* a send raised during the push, and the row is among the user's
\* notifications
C14_Witness ==
  /\ last.op = "notify" /\ last.status = 500
  /\ \E n \in getNotifications(last.user) : n.id = last.id
  /\ Registered(last.user) # {}

\* C16: once the close event of a socket has been handled, the socket is in
\* no user's connection list, whatever auth messages it sent before.
C16_ClosedSocketUnregistered ==
  \A c \in Conns :
    sockets[c].readyState = "CLOSED" =>
       \A u \in DOMAIN subscriptions : c \notin Range(subscriptions[u])

\* C17: no user id maps to an empty connection list.
C17_NoEmptyList ==
  \A u \in DOMAIN subscriptions : Len(subscriptions[u]) >= 1

\* a socket subscribed for a user and closed, and the user's entry is gone
C17_Witness ==
  \E c \in Conns :
    /\ sockets[c].readyState = "CLOSED"
    /\ sockets[c].userId # 0
    /\ sockets[c].userId \notin DOMAIN subscriptions

\* C18: one notification is pushed at most once to any one socket.
C18_PushedAtMostOnce ==
  \A c \in Conns : \A n \in notifications : Cardinality(PushesOf(c, n.id)) <= 1

\* the socket whose send raised in the broadcast of the step, if one did
RaisedOn(userId, sent) ==
  IF Raised(userId, sent) THEN {Targets(userId)[sent + 1]} ELSE {}

\* C19: a broadcast to U sends the one payload to every open socket
\* registered for U (a socket whose own send raised aside), sends nothing to
\* a socket that is not open or is not registered for U, and leaves the
\* registry as it was.
C19_BroadcastReachesEveryOpenSocket ==
  [][notifications' # notifications =>
       \A u \in {last'.user}, sent \in {last'.sent},
          row \in notifications' \ notifications :
          /\ subscriptions' = subscriptions
          /\ sockets' = sockets
          /\ \A c \in Conns :
               /\ Len(inbox'[c]) >= Len(inbox[c])
               /\ \A i \in DOMAIN inbox'[c] :
                    IF i <= Len(inbox[c]) THEN inbox'[c][i] = inbox[c][i]
                    ELSE inbox'[c][i] = [type |-> "notification", data |-> row]
               /\ (sockets[c].readyState # "OPEN" \/ c \notin Registered(u))
                     => inbox'[c] = inbox[c]
               /\ (sockets[c].readyState = "OPEN" /\ c \in Registered(u)
                                                  /\ c \notin RaisedOn(u, sent))
                     => Len(inbox'[c]) > Len(inbox[c])]_vars

\* C19 for broadcasts in which no send raises: the same frame, with every
\* open socket registered for U sent the payload.
C19_BroadcastFrameWhenNoSendRaises ==
  [][notifications' # notifications =>
       \A u \in {last'.user}, row \in notifications' \ notifications :
          /\ subscriptions' = subscriptions
          /\ sockets' = sockets
          /\ \A c \in Conns :
               /\ Len(inbox'[c]) >= Len(inbox[c])
               /\ \A i \in DOMAIN inbox'[c] :
                    IF i <= Len(inbox[c]) THEN inbox'[c][i] = inbox[c][i]
                    ELSE inbox'[c][i] = [type |-> "notification", data |-> row]
               /\ (sockets[c].readyState # "OPEN" \/ c \notin Registered(u))
                     => inbox'[c] = inbox[c]
               /\ (last'.status = 200 /\ sockets[c].readyState = "OPEN"
                                      /\ c \in Registered(u))
                     => Len(inbox'[c]) > Len(inbox[c])]_vars

----------------------------------------------------------------------------
(* C12, C13, C15: requests in flight, under SpecSteps *)

\* C12: expense creation is atomic: in no state, hence for no read that falls
\* between two steps of a creation, is an expense stored with none or only
\* some of its shares; and a creation that has answered with an error has
\* left no expense record and no share behind.
C12_ExpenseCreationAtomic ==
  \A i \in DOMAIN calls :
    calls[i].op = "expense" =>
      /\ (\E e \in expenses : e.id = calls[i].expenseId) =>
            Cardinality(getExpenseShares(calls[i].expenseId))
               = Len(calls[i].involvedUserIds)
      /\ calls[i].status = 500 =>
            /\ \A e \in expenses : e.id # calls[i].expenseId
            /\ getExpenseShares(calls[i].expenseId) = {}

\* the notification messages the sockets have been sent
Pushed ==
  UNION {{inbox[c][i].data : i \in {j \in DOMAIN inbox[c] :
                                      inbox[c][j].type = "notification"}} :
           c \in Conns}

\* C13: whenever an expense_added notification has been created or pushed,
\* its expense and all the shares of that expense are stored, and whenever a
\* settlement_received notification has been created or pushed, its
\* settlement is stored.
C13_StoredBeforeNotified ==
  \A n \in notifications \cup Pushed :
    /\ n.type = "expense_added" =>
         /\ \E e \in expenses : e.id = n.data.ref
         /\ Cardinality(getExpenseShares(n.data.ref)) = n.data.den
    /\ n.type = "settlement_received" =>
         \E x \in settlements : x.id = n.data.ref

\* an expense_added notification has been pushed for a creation that has not
\* answered yet, and a settlement_received notification has been created
C13_Witness ==
  /\ \E n \in notifications : n.type = "settlement_received"
  /\ \E n \in Pushed :
       /\ n.type = "expense_added"
       /\ \E i \in DOMAIN calls :
            /\ calls[i].op = "expense" /\ calls[i].pc = "notify"
            /\ calls[i].expenseId = n.data.ref

\* C15: a send that raises during a push is not propagated to the operation
\* that created the notification: the step of a handler that creates a
\* notification never ends the request with an error.
C15_PushFailureSwallowed ==
  [][\A i \in DOMAIN calls :
       (calls[i].pc = "notify" /\ calls'[i] # calls[i]) =>
          calls'[i].status # 500]_vars

----------------------------------------------------------------------------
(* C20: the notifications of an expense, under SpecLedger *)

\* the expense_added notifications created for a user about an expense
AddedNotifications(e, userId) ==
  {n \in notifications :
     n.type = "expense_added" /\ n.data.ref = e.id /\ n.userId = userId}

\* C20: every created expense has exactly one expense_added notification for
\* each distinct participant other than the payer and none for the payer,
\* and the amount in each notification is that participant's persisted
\* share, also when the participant list names a user more than once.
C20_OneNotificationPerParticipant ==
  \A e \in expenses :
    /\ AddedNotifications(e, e.paidById) = {}
    /\ \A u \in {s.userId : s \in OthersShares(e)} :
         /\ Cardinality(AddedNotifications(e, u)) = 1
         /\ \A n \in AddedNotifications(e, u) : \A s \in SharesOf(e, u) :
              n.data.num = n.data.den * s.amount

----------------------------------------------------------------------------
(* C21: what a successful settlement records, under SpecLedger *)

\* C21: when a settlement request by U toward F succeeds, exactly one
\* settlement row is written, from U to F, whose amount is the magnitude of
\* the negative balance U's query reported for F when the request was made;
\* exactly one notification is created, of type settlement_received, addressed
\* to F and not to U, and its data.amount is the settlement amount.
C21_SettlementRecordsWhatWasOwed ==
  [][(last'.op = "settlement" /\ last'.status = 201) =>
       /\ Cardinality(settlements' \ settlements) = 1
       /\ Cardinality(notifications' \ notifications) = 1
       /\ \A s \in settlements' \ settlements :
            /\ s.payerId = last'.user /\ s.receiverId = last'.id
            /\ FriendAmount(s.payerId, s.receiverId) < 0
            /\ s.amount = 0 - FriendAmount(s.payerId, s.receiverId)
            /\ \A n \in notifications' \ notifications :
                 /\ n.type = "settlement_received"
                 /\ n.userId = s.receiverId /\ n.userId # s.payerId
                 /\ n.data.ref = s.id
                 /\ n.data.num = s.amount * n.data.den]_vars

\* a settlement of 1.00 has been recorded and its receiver notified of 1.00
C21_Witness ==
  /\ last.op = "settlement" /\ last.status = 201
  /\ \E s \in settlements :
       /\ s.payerId = last.user /\ s.receiverId = last.id /\ s.amount = 100
       /\ \E n \in notifications :
            /\ n.type = "settlement_received" /\ n.userId = s.receiverId
            /\ n.data.ref = s.id /\ n.data.num = 100 /\ n.data.den = 1

----------------------------------------------------------------------------
(* C22: POST /api/expenses with a split type other than equal *)

\* req.body.splitType
SplitTypes == {"equal", "unequal", "percentage"}

\* what the requests with a split type carry
SplitPayers == {1}
SplitFriendLists == {<<2>>}

\* per-participant amounts (cents) or percentages a request body may carry, in
\* the order of its participants with the payer last; the handler reads
\* amount, description, date, category, splitType, splitWith, groupId and
\* friends out of the body and nothing else
GivenShares == {<<150, 50>>, <<200, 100>>, <<75, 25>>}

\* the handler run from start to end, with the request kept in calls: both
\* branches on splitType compute totalAmount / involvedUserIds.length
SplitExpenseRequest ==
  \E userId \in SplitPayers, amount \in Amounts, friendList \in SplitFriendLists,
     splitType \in SplitTypes, given \in GivenShares :
    /\ Cardinality(expenses) < MaxExpenses
    /\ CreateExpense(userId, amount, "friends", NoGroup, friendList)
    /\ calls' = Append(calls,
          [op |-> "expense", pc |-> "done", status |-> 201, userId |-> userId,
           expenseId |-> NextId(expenses), amount |-> amount,
           splitType |-> splitType, given |-> given,
           involvedUserIds |-> InvolvedUserIds(userId, "friends", NoGroup, friendList)])
    /\ UNCHANGED <<friends, groups, groupMembers, settlements, channel>>

NextSplit == SplitExpenseRequest

SpecSplit == Init /\ [][NextSplit]_vars

\* the sum of the numbers a request gave
GivenTotal(given) == SumAmount({[id |-> j, amount |-> given[j]] : j \in DOMAIN given})

\* C22: for an expense request with split type unequal or percentage, when the
\* given amounts do not sum to the expense amount (or the given percentages to
\* 100) the request is answered with a validation error and no expense and no
\* share of it is stored; when they do, the request succeeds and the share
\* stored for each participant is the amount given for that participant.
C22_ExplicitSplitValidated ==
  \A i \in DOMAIN calls : \A call \in {calls[i]} :
    (call.op = "expense" /\ call.splitType \in {"unequal", "percentage"}) =>
      IF GivenTotal(call.given) # (IF call.splitType = "unequal" THEN call.amount ELSE 100)
      THEN /\ call.status = 400
           /\ \A e \in expenses : e.id # call.expenseId
           /\ getExpenseShares(call.expenseId) = {}
      ELSE /\ call.status = 201
           /\ \A j \in DOMAIN call.involvedUserIds :
                \E s \in getExpenseShares(call.expenseId) :
                  /\ s.userId = call.involvedUserIds[j]
                  /\ s.amount = IF call.splitType = "unequal" THEN call.given[j]
                                ELSE (call.given[j] * call.amount) \div 100

----------------------------------------------------------------------------
(* C23, C24: the call sites of the balance query *)

\* DatabaseStorage.getFriends: the users on the other side of an accepted
\* friendship
getFriends(userId) ==
  {u \in Users : \E f \in friends :
     /\ f.status = "accepted"
     /\ \/ (f.userId = userId /\ f.friendId = u)
        \/ (f.friendId = userId /\ f.userId = u)}

\* GET /api/dashboard: friendBalances as the balance query returned them
DashboardBalances(userId) == getUserBalances(userId).friendBalances

\* GET /api/friends: one entry per accepted friend, with
\* friendBalances.find(b => b.id === friend.id)?.amount || 0 as its balance
FriendListBalances(userId) ==
  [f \in getFriends(userId) |-> FriendAmount(userId, f)]

\* users who send friend requests and read their dashboard and friend list,
\* and the ids the balance query is called with
QueryUsers == {1, 2}
QueryIds == QueryUsers \cup {UnknownUser}

QueryFriendRequest ==
  \E userId \in QueryUsers, friend \in QueryUsers :
    /\ AddFriendByEmail(userId, EmailOf(friend))
    /\ UNCHANGED <<groups, groupMembers, expenses, expenseShares, settlements>>
    /\ UNCHANGED <<channel, calls>>

QueryExpenseRequest ==
  \E userId \in SplitPayers, amount \in Amounts, friendList \in SplitFriendLists :
    /\ Cardinality(expenses) < MaxExpenses
    /\ CreateExpense(userId, amount, "friends", NoGroup, friendList)
    /\ UNCHANGED <<friends, groups, groupMembers, settlements>>
    /\ UNCHANGED <<channel, calls>>

GetDashboard ==
  \E userId \in QueryUsers :
    /\ last' = [op |-> "dashboard", user |-> userId, id |-> 0, status |-> 200,
                body |-> DashboardBalances(userId)]
    /\ UNCHANGED <<Ledger, channel, calls>>

GetFriends ==
  \E userId \in QueryUsers :
    /\ last' = [op |-> "friends", user |-> userId, id |-> 0, status |-> 200,
                body |-> FriendListBalances(userId)]
    /\ UNCHANGED <<Ledger, channel, calls>>

\* storage.getUserBalances(userId) called with any id: the promise resolves
\* with whatever the loops over the (possibly empty) query results built
GetUserBalancesCall ==
  \E userId \in QueryIds :
    /\ last' = [op |-> "getUserBalances", user |-> userId, id |-> 0, status |-> 0,
                outcome |-> "resolved", body |-> getUserBalances(userId)]
    /\ UNCHANGED <<Ledger, channel, calls>>

NextQueries ==
  \/ QueryFriendRequest
  \/ QueryExpenseRequest
  \/ SettlementRequest
  \/ GetDashboard
  \/ GetFriends
  \/ GetUserBalancesCall

SpecQueries == Init /\ [][NextQueries]_vars

\* C23: a balance query for an id that no user has ends in a not-found
\* outcome, never in a result; and no entry of a result is for a counterparty
\* id that no user has.
C23_UnknownUserNotFound ==
  last.op = "getUserBalances" =>
     /\ last.user \notin Users => last.outcome = "not found"
     /\ last.outcome = "resolved" =>
          \A k \in DOMAIN last.body.friendBalances : k \in Users

\* no expense has one of the two as payer and the other as participant, and
\* no settlement is between them
ZeroActivity(userId, friendId) ==
  /\ \A e \in expenses : \A s \in getExpenseShares(e.id) :
        ~ (e.paidById = userId /\ s.userId = friendId)
        /\ ~ (e.paidById = friendId /\ s.userId = userId)
  /\ \A s \in settlements : {s.payerId, s.receiverId} # {userId, friendId}

\* C24: an accepted friend F of U with no expense and no settlement between
\* them is in the dashboard's balances exactly if the friend list reports F
\* with a balance, and a settlement request by U toward F is answered 'You
\* don't owe this friend any money' (400) exactly if those report F, and
\* 'Friend not found' (404) exactly if they omit F.
C24_ZeroActivityFriendTreatedAlike ==
  \A u \in Users : \A f \in getFriends(u) : ZeroActivity(u, f) =>
     /\ f \in DOMAIN FriendListBalances(u) <=> f \in DOMAIN DashboardBalances(u)
     /\ (last.op = "settlement" /\ last.user = u /\ last.id = f) =>
          /\ last.status = 400 <=> f \in DOMAIN FriendListBalances(u)
          /\ last.status = 404 <=> f \notin DOMAIN DashboardBalances(u)

----------------------------------------------------------------------------
(* C25: settlement requests in flight together *)

\* direct expenses handled from start to end, settlement requests step by
\* step: two of them may both have read the balance before either writes
NextSettleRace ==
  \/ QueryExpenseRequest
  \/ SettlementReadStep
  \/ SettlementInsertStep
  \/ SettlementNotifyStep

SpecSettleRace == Init /\ [][NextSettleRace]_vars

\* what U owes F from expenses alone: U's shares in the expenses F paid less
\* F's shares in the expenses U paid
OwedFromExpenses(userId, friendId) ==
    SumAmount({s \in expenseShares :
                 /\ s.userId = userId
                 /\ \E e \in expenses : e.id = s.expenseId /\ e.paidById = friendId})
  - SumAmount({s \in expenseShares :
                 /\ s.userId = friendId
                 /\ \E e \in expenses : e.id = s.expenseId /\ e.paidById = userId})

\* C25: whatever the order and interleaving of settlement requests from U to
\* F, the settlement records from U to F never add up to more than U owed F
\* from expenses (so of the requests made with no new expense in between, at
\* most one has written a record).
C25_NoOverSettlement ==
  \A u, f \in Users : u # f =>
     SumAmount({s \in settlements : s.payerId = u /\ s.receiverId = f})
        <= IF OwedFromExpenses(u, f) > 0 THEN OwedFromExpenses(u, f) ELSE 0

----------------------------------------------------------------------------
(* C26: MemStorage.getUserBalances against DatabaseStorage.getUserBalances,
   under SpecGroup *)

\* MemStorage.getGroups: the groups a user has a membership row in
getGroups(userId) ==
  {g \in groups : \E m \in groupMembers : m.groupId = g.id /\ m.userId = userId}

\* the additions the friend loop of MemStorage.getUserBalances makes for one
\* friend: the friend's first share in each expense the user paid outside any
\* group, the user's first share in each such expense the friend paid, and
\* the settlements between the two
MemFriendTerms(userId, friendId) ==
  {[src |-> "paid", id |-> e.id, amount |-> FirstRow(SharesOf(e, friendId)).amount] :
     e \in {x \in getExpenses(userId) :
              /\ x.paidById = userId /\ x.groupId = NoGroup
              /\ SharesOf(x, friendId) # {}}}
  \cup
  {[src |-> "owed", id |-> e.id, amount |-> 0 - FirstRow(SharesOf(e, userId)).amount] :
     e \in {x \in expenses :
              /\ x.paidById = friendId /\ x.groupId = NoGroup
              /\ SharesOf(x, userId) # {}}}
  \cup
  {[src |-> "settlement", id |-> s.id,
    amount |-> IF s.payerId = userId THEN 0 - s.amount ELSE s.amount] :
     s \in {x \in settlements :
              \/ (x.payerId = userId /\ x.receiverId = friendId)
              \/ (x.payerId = friendId /\ x.receiverId = userId)}}

\* MemStorage.getUserBalances: one friend entry per accepted friend, one group
\* entry per group of the user
MemStorage_getUserBalances(userId) ==
  [friendBalances |-> [f \in getFriends(userId) |->
                          SumAmount(MemFriendTerms(userId, f))],
   groupBalances |-> [i \in 1..Cardinality(getGroups(userId)) |->
                        [id |-> SortedSeq({g.id : g \in getGroups(userId)})[i],
                         amount |-> MemGroupBalance(userId,
                             SortedSeq({g.id : g \in getGroups(userId)})[i])]]]

\* C26: in every ledger state and for every user, the two implementations of
\* the balance query return the same friend entries with the same amounts and
\* the same group entries with the same amounts.
C26_StoresAgreeOnBalances ==
  \A u \in Users :
     /\ MemStorage_getUserBalances(u).friendBalances = getUserBalances(u).friendBalances
     /\ Range(MemStorage_getUserBalances(u).groupBalances)
          = Range(getUserBalances(u).groupBalances)

----------------------------------------------------------------------------
(* groups with settlements: few creators and payers, so that more groups,
   expenses and settlements fit *)

GroupCreators == {1}
GroupMemberSets == {{1, 2}, {1, 2, 3}}

SmallGroupRequest ==
  \E userId \in GroupCreators, members \in GroupMemberSets :
    /\ Cardinality(groups) < MaxGroups
    /\ CreateGroup(userId, members)
    /\ UNCHANGED <<friends, expenses, expenseShares, settlements>>
    /\ UNCHANGED <<channel, calls>>

SmallGroupExpenseRequest ==
  \E userId \in Payers, amount \in StepAmounts, g \in groups :
    /\ Cardinality(expenses) < MaxExpenses
    /\ CreateExpense(userId, amount, "group", g.id, <<>>)
    /\ UNCHANGED <<friends, groups, groupMembers, settlements>>
    /\ UNCHANGED <<channel, calls>>

NextGroupSettle ==
  \/ SmallGroupRequest
  \/ SmallGroupExpenseRequest
  \/ SettlementRequest

SpecGroupSettle == Init /\ [][NextGroupSettle]_vars

----------------------------------------------------------------------------
(* C28: settlements and group balances, under SpecGroupSettle *)

\* C28: a step that records a settlement leaves the group balance of every
\* user in every group as it was: the user has the same groups, MemStorage's
\* group loop computes the same amount for each, and the balance query of
\* the server reports the same amount for each.
C28_SettlementLeavesGroupBalances ==
  [][settlements' # settlements =>
       \A u \in Users :
          /\ getGroups(u)' = getGroups(u)
          /\ \A g \in groups :
               /\ MemGroupBalance(u, g.id)' = MemGroupBalance(u, g.id)
               /\ GroupAmount(u, g.id)' = GroupAmount(u, g.id)]_vars

\* a settlement has been recorded by a user whose group balance is not zero
C28_Witness ==
  /\ last.op = "settlement" /\ last.status = 201
  /\ \E s \in settlements : \E g \in groups :
       /\ s.payerId = last.user
       /\ MemGroupBalance(last.user, g.id) # 0

----------------------------------------------------------------------------
(* C29: friend requests to one's own address, under SpecFriends *)

\* C29: no friendship record has the same user on both sides, and a friend
\* request that gives the requester's own e-mail address, in lower or upper
\* case, is rejected (400 or 404) and leaves the friendships and the
\* notifications as they were.
C29_NoSelfFriendship ==
  [][/\ \A f \in friends' : f.userId # f.friendId
     /\ (last'.op = "friend" /\ last'.email[1] = last'.user) =>
          /\ last'.status \in {400, 404}
          /\ friends' = friends
          /\ notifications' = notifications]_vars

\* a user with friendships on record has given their own address in upper case
C29_Witness ==
  /\ last.op = "friend" /\ last.email = <<last.user, "upper">>
  /\ last.status = 404
  /\ \E f \in friends : f.userId = last.user

----------------------------------------------------------------------------
(* C30: POST /api/notifications/:id/read and /read-all *)

\* DatabaseStorage.markNotificationAsRead: update ... set read = true where
\* id = :id
markNotificationAsRead(id) ==
  {IF n.id = id THEN [n EXCEPT !.read = TRUE] ELSE n : n \in notifications}

\* DatabaseStorage.markAllNotificationsAsRead: ... where user_id = :userId
markAllNotificationsAsRead(userId) ==
  {IF n.userId = userId THEN [n EXCEPT !.read = TRUE] ELSE n : n \in notifications}

\* ids a request may name in its path
NotificationIds == 1..3

\* the route passes parseInt(req.params.id) on and does not read req.user
MarkReadRequest ==
  \E userId \in Users, notificationId \in NotificationIds :
    /\ notifications' = markNotificationAsRead(notificationId)
    /\ last' = [op |-> "read", user |-> userId, id |-> notificationId, status |-> 200]
    /\ UNCHANGED <<friends, groups, groupMembers, expenses, expenseShares,
                   settlements, channel, calls>>

MarkAllReadRequest ==
  \E userId \in Users :
    /\ notifications' = markAllNotificationsAsRead(userId)
    /\ last' = [op |-> "read-all", user |-> userId, id |-> 0, status |-> 200]
    /\ UNCHANGED <<friends, groups, groupMembers, expenses, expenseShares,
                   settlements, channel, calls>>

NextRead ==
  \/ CreateNotificationStep
  \/ MarkReadRequest
  \/ MarkAllReadRequest

SpecRead == Init /\ [][NextRead]_vars

\* C30: a mark-as-read or mark-all-as-read request by user X leaves every
\* notification addressed to another user as it was, and a notification that
\* is read stays read.
C30_ReadFlagOwnedByRecipient ==
  [][/\ \A n \in notifications : n.read => n \in notifications'
     /\ last'.op \in {"read", "read-all"} =>
          \A n \in notifications : n.userId # last'.user => n \in notifications']_vars

----------------------------------------------------------------------------
(* C27: requests between two users once their friendship is accepted *)

MaxPairCalls == 4

\* the two users who send each other friend requests
PairUsers == {1, 2}

PairLookupStep ==
  \E userId \in PairUsers : \E friend \in PairUsers \ {userId} :
    /\ Len(calls) < MaxPairCalls
    /\ FriendLookup(userId, EmailOf(friend))
    /\ UNCHANGED <<groups, groupMembers, expenses, expenseShares, settlements,
                   subscriptions, sockets>>

NextFriendPair ==
  \/ PairLookupStep
  \/ FriendWriteStep
  \/ FriendNotifyStep

SpecFriendPair == Init /\ [][NextFriendPair]_vars

\* a friendship record stays as it is or goes from pending to accepted
OnlyAccepts ==
  \A f \in friends :
    \E g \in friends' :
      /\ g.id = f.id
      /\ g = f \/ (f.status = "pending" /\ g = [f EXCEPT !.status = "accepted"])

\* C27: an accepted friendship record never changes again and the only change
\* ever made to a record is pending -> accepted; a friend request that
\* arrives when the pair has an accepted record, from either side, writes
\* nothing (no record, no update, no notification) and is answered 400.
C27_AcceptedIsTerminal ==
  [][/\ OnlyAccepts
     /\ \A i \in DOMAIN calls' : \A call \in {calls'[i]} :
          (call.op = "friend" /\ call.acceptedBefore) =>
             /\ call.pc \in {"found", "done"}
             /\ call.pc = "done" => call.status = 400]_vars

\* the same for requests handled one at a time: a request between a pair
\* with an accepted record is answered 400 'Friendship already exists' and
\* leaves friendships and notifications as they were (holds under SpecFriends)
C27_AcceptedIsTerminalInSequence ==
  [][/\ OnlyAccepts
     /\ \A a \in {last'.user}, b \in {last'.id} :
          (last'.op = "friend" /\ \E f \in getFriendship(a, b) : f.status = "accepted") =>
             /\ last'.status = 400 /\ last'.body = "Friendship already exists"
             /\ friends' = friends
             /\ notifications' = notifications]_vars

====
